---- MODULE Spec2Model ----
(***************************************************************************)
(* Model of the sozu-pki-connector reconciliation engine:                  *)
(*   svc/certificates/mod.rs      find, read, metadata                     *)
(*   svc/certificates/diff.rs     create                                   *)
(*   svc/certificates/message.rs  create                                   *)
(*   svc/certificates/watcher.rs  Watcher::lookup, lookup_every            *)
(***************************************************************************)
EXTENDS Naturals, Sequences, FiniteSets, TLC

\* ------------------------------------------------------------------------
\* Bounds

NumPaths == 2
NumCerts == 2
MaxRounds == 3
MaxFsChanges == 2

\* Bundle directories below the pki root.
Paths == 1..NumPaths

\* Paths handed to diff::create and message::create when they are exercised
\* as pure functions (one more than the directory model, so that one call
\* can hold an added, a deleted and a modified path at once).
ArgPaths == 1..(NumPaths + 1)

\* ------------------------------------------------------------------------
\* Directory contents

\* One PEM block of a .crt file: `id` stands for its bytes, `pem` says
\* whether parse_pem accepts it, `x509` whether parse_x509 accepts it.
Cert(id, pem, x509) == [id |-> id, pem |-> pem, x509 |-> x509]

GoodCert(id) == Cert(id, TRUE, TRUE)

\* A certificate that appears only in chains.
ChainCert == GoodCert(NumCerts + 1)

NoEntry == [kind |-> "none"]

FileEntry == [kind |-> "file"]

\* <name>.crt: absent, or the PEM blocks split_certificate_chain finds in it.
NoCrt == [exists |-> FALSE, certs |-> <<>>]

Crt(certs) == [exists |-> TRUE, certs |-> certs]

\* options.json: "absent", "unreadable" (present, but read_to_string
\* fails), "malformed" (readable, but not a JSON version list) or "json".
Options(state, versions) == [state |-> state, versions |-> versions]

NoOptions == Options("absent", <<>>)

\* A bundle directory <name>/ ; key is "missing" or the text of <name>.key.
Dir(crt, key, opts) == [kind |-> "dir", crt |-> crt, key |-> key, opts |-> opts]

ValidEntries ==
    {Dir(Crt(<<GoodCert(i)>>), "key1", NoOptions) : i \in 1..NumCerts}
    \cup {Dir(Crt(<<GoodCert(1), ChainCert>>), "key1", NoOptions),
          Dir(Crt(<<GoodCert(1)>>), "key2", NoOptions),
          Dir(Crt(<<GoodCert(1)>>), "key1", Options("json", <<"TLS_V13">>)),
          Dir(Crt(<<GoodCert(1)>>), "key1", Options("malformed", <<>>))}

SkippedEntries ==
    {FileEntry,
     Dir(NoCrt, "key1", NoOptions),
     Dir(Crt(<<>>), "key1", NoOptions),
     Dir(Crt(<<GoodCert(1)>>), "missing", NoOptions),
     Dir(Crt(<<GoodCert(1)>>), "key1", Options("unreadable", <<>>)),
     Dir(Crt(<<Cert(1, FALSE, FALSE)>>), "key1", NoOptions),
     Dir(Crt(<<Cert(1, TRUE, FALSE)>>), "key1", NoOptions)}

\* A bundle whose chain holds a block that is not valid PEM: read accepts
\* it (only the leaf is parsed), calculate_fingerprint rejects it.
BrokenChainEntry ==
    Dir(Crt(<<GoodCert(1), Cert(NumCerts + 1, FALSE, FALSE)>>), "key1", NoOptions)

DiskEntries == {NoEntry} \cup ValidEntries \cup SkippedEntries \cup {BrokenChainEntry}

\* ------------------------------------------------------------------------
\* svc/certificates/mod.rs

\* get_cn_and_san_attributes: the names are a function of the certificate;
\* distinct certificates may carry the same names.
CertNames(cert) == {<<"cn", cert.id % 2>>}

\* calculate_fingerprint: digest of the PEM block's contents, an error when
\* the block is not valid PEM.
CalculateFingerprint(cert) ==
    IF cert.pem THEN [ok |-> TRUE, fingerprint |-> <<"sha256", cert.id>>]
    ELSE [ok |-> FALSE]

\* Fingerprint::to_string
FingerprintToString(fingerprint) == <<"hex", fingerprint[2]>>

\* Variant: a missing key file does not stop the load.
ReadWithoutKey(entry) ==
    LET certificates == entry.crt.certs
    IN  IF ~entry.crt.exists THEN [tag |-> "err", error |-> "Read"]
        ELSE IF Len(certificates) = 0 THEN [tag |-> "none"]
        ELSE IF entry.opts.state = "unreadable" THEN [tag |-> "err", error |-> "Read"]
        ELSE IF ~certificates[1].pem THEN [tag |-> "err", error |-> "ParsePem"]
        ELSE IF ~certificates[1].x509 THEN [tag |-> "err", error |-> "ParseX509"]
        ELSE [tag |-> "some",
              value |-> [certificate |-> certificates[1],
                         certificate_chain |-> Tail(certificates),
                         key |-> entry.key,
                         versions |-> IF entry.opts.state = "json"
                                      THEN entry.opts.versions ELSE <<>>,
                         names |-> CertNames(certificates[1])]]

\* read: Ok(Some(CertificateAndKey)), Ok(None) or Err for one directory.
Read(entry) ==
    LET certificates == entry.crt.certs
    IN  IF ~entry.crt.exists THEN [tag |-> "err", error |-> "Read"]
        ELSE IF Len(certificates) = 0 THEN [tag |-> "none"]
        ELSE IF entry.key = "missing" THEN [tag |-> "err", error |-> "Read"]
        ELSE IF entry.opts.state = "unreadable" THEN [tag |-> "err", error |-> "Read"]
        ELSE IF ~certificates[1].pem THEN [tag |-> "err", error |-> "ParsePem"]
        ELSE IF ~certificates[1].x509 THEN [tag |-> "err", error |-> "ParseX509"]
        ELSE [tag |-> "some",
              value |-> [certificate |-> certificates[1],
                         certificate_chain |-> Tail(certificates),
                         key |-> entry.key,
                         versions |-> IF entry.opts.state = "json"
                                      THEN entry.opts.versions ELSE <<>>,
                         names |-> CertNames(certificates[1])]]

\* find (the read_dir loop): the bundles of the directories that read
\* accepts; other entries are skipped.
Find(root) ==
    LET loaded == {p \in DOMAIN root :
                      /\ root[p].kind = "dir"
                      /\ Read(root[p]).tag = "some"}
    IN  [p \in loaded |-> Read(root[p]).value]

\* struct Metadata
MetadataNew(path, fingerprint, names, chain_fingerprints) ==
    [path |-> path, names |-> names, fingerprint |-> fingerprint,
     chain_fingerprints |-> chain_fingerprints]

\* Variant: the fingerprint covers the TLS versions of the bundle.
MetadataCoversVersions(path, certificate_and_key) ==
    LET chain == certificate_and_key.certificate_chain
        leaf == CalculateFingerprint(certificate_and_key.certificate)
    IN  IF ~leaf.ok \/ \E i \in 1..Len(chain) : ~CalculateFingerprint(chain[i]).ok
        THEN [ok |-> FALSE]
        ELSE [ok |-> TRUE,
              value |-> MetadataNew(
                  path,
                  <<"sha256", leaf.fingerprint[2] + 10 * Len(certificate_and_key.versions)>>,
                  certificate_and_key.names,
                  {CalculateFingerprint(chain[i]).fingerprint : i \in 1..Len(chain)})]

\* metadata: Err when a fingerprint cannot be computed.
Metadata(path, certificate_and_key) ==
    LET chain == certificate_and_key.certificate_chain
        leaf == CalculateFingerprint(certificate_and_key.certificate)
    IN  IF ~leaf.ok \/ \E i \in 1..Len(chain) : ~CalculateFingerprint(chain[i]).ok
        THEN [ok |-> FALSE]
        ELSE [ok |-> TRUE,
              value |-> MetadataNew(
                  path, leaf.fingerprint, certificate_and_key.names,
                  {CalculateFingerprint(chain[i]).fingerprint : i \in 1..Len(chain)})]

\* ------------------------------------------------------------------------
\* svc/certificates/diff.rs

\* Variant: every common key counts as modified.
DiffCreateAllCommonModified(current, new) ==
    [added |-> DOMAIN new \ DOMAIN current,
     modified |-> DOMAIN current \cap DOMAIN new,
     deleted |-> DOMAIN current \ DOMAIN new]

\* Variant: two metadata are compared by their leaf fingerprint.
DiffCreateLeafOnly(current, new) ==
    [added |-> DOMAIN new \ DOMAIN current,
     modified |-> {p \in DOMAIN current \cap DOMAIN new :
                      current[p].fingerprint # new[p].fingerprint},
     deleted |-> DOMAIN current \ DOMAIN new]

\* create
DiffCreate(current, new) ==
    LET current_keys == DOMAIN current
        new_keys == DOMAIN new
    IN  [added |-> new_keys \ current_keys,
         modified |-> {path \in current_keys \cap new_keys : current[path] # new[path]},
         deleted |-> current_keys \ new_keys]

\* ------------------------------------------------------------------------
\* svc/certificates/message.rs

Listener == "https_listener"

\* The orders in which a HashSet may be iterated.
Orders(S) ==
    {s \in [1..Cardinality(S) -> S] : \A i, j \in DOMAIN s : i # j => s[i] # s[j]}

\* Variant: the Add carries some loaded bundle, not the path's.
AddCertificateAnyBundle(path, new, pki) ==
    IF path \notin DOMAIN new THEN [ok |-> FALSE, error |-> <<"NoMetadataFor", path>>]
    ELSE IF path \notin DOMAIN pki THEN [ok |-> FALSE, error |-> <<"NoPKIAt", path>>]
    ELSE [ok |-> TRUE,
          request |-> [path |-> path, kind |-> "AddCertificate", address |-> Listener,
                       certificate |-> pki[CHOOSE q \in DOMAIN pki : TRUE]]]

\* create, one item of the `added` loop.
AddCertificate(path, new, pki) ==
    IF path \notin DOMAIN new THEN [ok |-> FALSE, error |-> <<"NoMetadataFor", path>>]
    ELSE IF path \notin DOMAIN pki THEN [ok |-> FALSE, error |-> <<"NoPKIAt", path>>]
    ELSE [ok |-> TRUE,
          request |-> [path |-> path, kind |-> "AddCertificate", address |-> Listener,
                       certificate |-> pki[path]]]

RemoveCertificate(path, current) ==
    IF path \notin DOMAIN current THEN [ok |-> FALSE, error |-> <<"NoMetadataFor", path>>]
    ELSE [ok |-> TRUE,
          request |-> [path |-> path, kind |-> "RemoveCertificate", address |-> Listener,
                       fingerprint |-> FingerprintToString(current[path].fingerprint)]]

\* Variant: the old fingerprint is taken from the bundle just loaded.
ReplaceCertificateNewFingerprint(path, current, pki) ==
    IF path \notin DOMAIN current THEN [ok |-> FALSE, error |-> <<"NoMetadataFor", path>>]
    ELSE IF path \notin DOMAIN pki THEN [ok |-> FALSE, error |-> <<"NoPKIAt", path>>]
    ELSE [ok |-> TRUE,
          request |-> [path |-> path, kind |-> "ReplaceCertificate", address |-> Listener,
                       new_certificate |-> pki[path],
                       old_fingerprint |-> FingerprintToString(
                           CalculateFingerprint(pki[path].certificate).fingerprint)]]

ReplaceCertificate(path, current, pki) ==
    IF path \notin DOMAIN current THEN [ok |-> FALSE, error |-> <<"NoMetadataFor", path>>]
    ELSE IF path \notin DOMAIN pki THEN [ok |-> FALSE, error |-> <<"NoPKIAt", path>>]
    ELSE [ok |-> TRUE,
          request |-> [path |-> path, kind |-> "ReplaceCertificate", address |-> Listener,
                       new_certificate |-> pki[path],
                       old_fingerprint |-> FingerprintToString(current[path].fingerprint)]]

\* A HashSet iterated in the given order of its elements.
Iterate(S, order) == SelectSeq(order, LAMBDA path : path \in S)

\* The accumulated requests, or the error of the first item that failed.
Collect(all) ==
    LET failed == {i \in DOMAIN all : ~all[i].ok}
    IN  IF failed # {}
        THEN [ok |-> FALSE,
              error |-> all[CHOOSE i \in failed : \A j \in failed : i <= j].error]
        ELSE [ok |-> TRUE, acc |-> [i \in DOMAIN all |-> all[i].request]]

\* Variant: the Replace loop runs before the Remove loop.
MessageCreateReplaceFirst(current, new, pki, order) ==
    LET diff == DiffCreate(current, new)
        added == Iterate(diff.added, order)
        deleted == Iterate(diff.deleted, order)
        modified == Iterate(diff.modified, order)
        adds == [i \in DOMAIN added |-> AddCertificate(added[i], new, pki)]
        removes == [i \in DOMAIN deleted |-> RemoveCertificate(deleted[i], current)]
        replaces == [i \in DOMAIN modified |-> ReplaceCertificate(modified[i], current, pki)]
    IN  Collect(adds \o replaces \o removes)

\* create; `order` fixes the iteration order of the three diff sets.  The
\* first failing item, in the order Add, Remove, Replace, is the error.
MessageCreate(current, new, pki, order) ==
    LET diff == DiffCreate(current, new)
        added == Iterate(diff.added, order)
        deleted == Iterate(diff.deleted, order)
        modified == Iterate(diff.modified, order)
        adds == [i \in DOMAIN added |-> AddCertificate(added[i], new, pki)]
        removes == [i \in DOMAIN deleted |-> RemoveCertificate(deleted[i], current)]
        replaces == [i \in DOMAIN modified |-> ReplaceCertificate(modified[i], current, pki)]
    IN  Collect(adds \o removes \o replaces)

\* ------------------------------------------------------------------------
\* svc/certificates/watcher.rs

VARIABLES
    disk,           \* the pki root: bundle directory -> contents
    fsChanges,      \* number of changes made to the pki root
    round,          \* number of the round lookup_every is in
    pc,             \* where lookup_every / Watcher::lookup stands
    self_metadata,  \* Watcher::metadata, the retained state
    pki,            \* lookup's `pki`
    metadata,       \* lookup's `metadata`
    requests,       \* lookup's `requests`
    idx,            \* position of the send loop in `requests` (1-based)
    emitted,        \* CERTIFICATE_REQUEST_EMITTED, by kind
    emitted_error,  \* CERTIFICATE_REQUEST_EMITTED_ERROR, by kind
    result,         \* what the last call of lookup returned
    sent,           \* history: requests handed to Client::send in this round
    prev,           \* history: the round that ended last
    acknowledged,   \* history: path -> metadata as the proxy's
                    \*   acknowledgements imply it
    committed,      \* history: the same, counting completed rounds only
    args,           \* arguments of a direct call of diff / message create
    ret,            \* what that call returned
    halted,         \* main's select!: the branch that completed, if any
    lookups         \* history: calls of Watcher::lookup that have not returned

vars ==
    <<disk, fsChanges, round, pc, self_metadata, pki, metadata, requests, idx,
      emitted, emitted_error, result, sent, prev, acknowledged, committed,
      args, ret, halted, lookups>>

Kinds == {"AddCertificate", "RemoveCertificate", "ReplaceCertificate"}

EmptyMap == <<>>

Insert(map, key, value) ==
    [k \in DOMAIN map \cup {key} |-> IF k = key THEN value ELSE map[k]]

Remove(map, key) == [k \in DOMAIN map \ {key} |-> map[k]]

NoArgs == [current |-> EmptyMap, new |-> EmptyMap, pki |-> EmptyMap]

NoCall == [call |-> "none"]

NoRound ==
    [outcome |-> "none", disk |-> EmptyMap, before |-> EmptyMap,
     scanned |-> EmptyMap, requests |-> <<>>, sent |-> <<>>]

\* Watcher::try_new: the retained state starts empty.  The pki root starts
\* empty and FsChange fills it before the first find.
Init ==
    /\ disk = [p \in Paths |-> NoEntry]
    /\ fsChanges = 0
    /\ round = 1
    /\ pc = "lookup"
    /\ self_metadata = EmptyMap
    /\ pki = EmptyMap
    /\ metadata = EmptyMap
    /\ requests = <<>>
    /\ idx = 1
    /\ emitted = [k \in Kinds |-> 0]
    /\ emitted_error = [k \in Kinds |-> 0]
    /\ result = "none"
    /\ sent = <<>>
    /\ prev = NoRound
    /\ acknowledged = EmptyMap
    /\ committed = EmptyMap
    /\ args = NoArgs
    /\ ret = NoCall
    /\ halted = "no"
    /\ lookups = 1

\* History of a round, recorded when lookup returns.
RoundRecord(outcome, log) ==
    [outcome |-> outcome, disk |-> disk, before |-> self_metadata,
     scanned |-> IF outcome \in {"FindCertificates", "ComputeMetadata"}
                 THEN EmptyMap
                 ELSE [p \in DOMAIN pki |-> Metadata(p, pki[p]).value],
     requests |-> requests, sent |-> log]

\* lookup returns: its locals are dropped.
Return(value, log) ==
    /\ result' = value
    /\ prev' = RoundRecord(value, log)
    /\ pc' = "tick"
    /\ pki' = EmptyMap
    /\ metadata' = EmptyMap
    /\ requests' = <<>>
    /\ idx' = 1
    /\ sent' = <<>>
    /\ lookups' = lookups - 1

\* The environment rewrites one bundle directory.  The root is read by find
\* only, so a change made at any moment is seen by the next find: changes
\* are placed right before it.
FsChange ==
    /\ halted = "no"
    /\ pc = "lookup"
    /\ fsChanges < MaxFsChanges
    /\ \E p \in Paths, e \in DiskEntries :
        /\ e # disk[p]
        /\ disk' = [disk EXCEPT ![p] = e]
    /\ fsChanges' = fsChanges + 1
    /\ UNCHANGED <<round, pc, self_metadata, pki, metadata, requests, idx,
                   emitted, emitted_error, result, sent, prev, acknowledged,
                   committed, args, ret, halted, lookups>>

\* Variant: a failed scan forgets the retained state.
LookupFindErrorForgets ==
    /\ halted = "no"
    /\ pc = "lookup"
    /\ self_metadata' = EmptyMap
    /\ Return("FindCertificates", sent)
    /\ UNCHANGED <<disk, fsChanges, round, emitted, emitted_error,
                   acknowledged, committed, args, ret, halted>>

\* lookup, certificates::find fails (read_dir or next_entry I/O error).
LookupFindError ==
    /\ halted = "no"
    /\ pc = "lookup"
    /\ Return("FindCertificates", sent)
    /\ UNCHANGED <<disk, fsChanges, round, self_metadata, emitted, emitted_error,
                   acknowledged, committed, args, ret, halted>>

\* lookup, certificates::find succeeds.
LookupFind ==
    /\ halted = "no"
    /\ pc = "lookup"
    /\ pki' = Find(disk)
    /\ pc' = "metadata"
    /\ UNCHANGED <<disk, fsChanges, round, self_metadata, metadata, requests, idx,
                   emitted, emitted_error, result, sent, prev, acknowledged,
                   committed, args, ret, halted, lookups>>

\* lookup, the metadata loop when certificates::metadata fails for a bundle.
LookupMetadataError ==
    /\ halted = "no"
    /\ pc = "metadata"
    /\ \E path \in DOMAIN pki : ~Metadata(path, pki[path]).ok
    /\ Return("ComputeMetadata", sent)
    /\ UNCHANGED <<disk, fsChanges, round, self_metadata, emitted, emitted_error,
                   acknowledged, committed, args, ret, halted>>

\* Variant: the new mapping starts from the retained one.
LookupMetadataKeepsRetained ==
    /\ halted = "no"
    /\ pc = "metadata"
    /\ \A path \in DOMAIN pki : Metadata(path, pki[path]).ok
    /\ metadata' = [path \in DOMAIN self_metadata \cup DOMAIN pki |->
                        IF path \in DOMAIN pki THEN Metadata(path, pki[path]).value
                        ELSE self_metadata[path]]
    /\ pc' = "create"
    /\ UNCHANGED <<disk, fsChanges, round, self_metadata, pki, requests, idx,
                   emitted, emitted_error, result, sent, prev, acknowledged,
                   committed, args, ret, halted, lookups>>

\* lookup, the metadata loop.
LookupMetadata ==
    /\ halted = "no"
    /\ pc = "metadata"
    /\ \A path \in DOMAIN pki : Metadata(path, pki[path]).ok
    /\ metadata' = [path \in DOMAIN pki |-> Metadata(path, pki[path]).value]
    /\ pc' = "create"
    /\ UNCHANGED <<disk, fsChanges, round, self_metadata, pki, requests, idx,
                   emitted, emitted_error, result, sent, prev, acknowledged,
                   committed, args, ret, halted, lookups>>

\* lookup, message::create and its error.
LookupCreate ==
    /\ halted = "no"
    /\ pc = "create"
    /\ \E order \in Orders(DOMAIN self_metadata \cup DOMAIN metadata) :
         LET created == MessageCreate(self_metadata, metadata, pki, order)
         IN  IF created.ok
             THEN /\ requests' = created.acc
                  /\ idx' = 1
                  /\ pc' = "send"
                  /\ UNCHANGED <<pki, metadata, result, sent, prev, lookups>>
             ELSE Return("ComputeMessage", sent)
    /\ UNCHANGED <<disk, fsChanges, round, self_metadata, emitted, emitted_error,
                   acknowledged, committed, args, ret, halted>>

\* lookup, the send loop: self.client.send(request) is called.
LookupSend ==
    /\ halted = "no"
    /\ pc = "send"
    /\ idx <= Len(requests)
    /\ sent' = Append(sent, [request |-> requests[idx], outcome |-> "pending"])
    /\ pc' = "await"
    /\ UNCHANGED <<disk, fsChanges, round, self_metadata, pki, metadata, requests,
                   idx, emitted, emitted_error, result, prev, acknowledged,
                   committed, args, ret, halted, lookups>>

\* The send log with the outcome of the request in flight filled in.
Settled(outcome) == [sent EXCEPT ![Len(sent)].outcome = outcome]

\* What an acknowledged request leaves at the proxy for its path.
Acknowledge(state, request, scanned) ==
    IF request.kind = "RemoveCertificate" THEN Remove(state, request.path)
    ELSE Insert(state, request.path, scanned[request.path])

\* Variant: the loop skips the request after an acknowledged one.
SendOkSkipsNext ==
    /\ halted = "no"
    /\ pc = "await"
    /\ emitted' = [emitted EXCEPT ![requests[idx].kind] = @ + 1]
    /\ sent' = Settled("ok")
    /\ acknowledged' = Acknowledge(acknowledged, requests[idx], metadata)
    /\ idx' = idx + 2
    /\ pc' = "send"
    /\ UNCHANGED <<disk, fsChanges, round, self_metadata, pki, metadata, requests,
                   emitted_error, result, prev, committed, args, ret, halted, lookups>>

\* Variant: the path of an acknowledged request is dropped from the new mapping.
SendOkDropsPath ==
    /\ halted = "no"
    /\ pc = "await"
    /\ metadata' = Remove(metadata, requests[idx].path)
    /\ emitted' = [emitted EXCEPT ![requests[idx].kind] = @ + 1]
    /\ sent' = Settled("ok")
    /\ acknowledged' = Acknowledge(
                           acknowledged, requests[idx],
                           [p \in DOMAIN pki |-> Metadata(p, pki[p]).value])
    /\ idx' = idx + 1
    /\ pc' = "send"
    /\ UNCHANGED <<disk, fsChanges, round, self_metadata, pki, requests,
                   emitted_error, result, prev, committed, args, ret, halted,
                   lookups>>

\* lookup, Ok(_) arm of the send.
SendOk ==
    /\ halted = "no"
    /\ pc = "await"
    /\ emitted' = [emitted EXCEPT ![requests[idx].kind] = @ + 1]
    /\ sent' = Settled("ok")
    /\ acknowledged' = Acknowledge(acknowledged, requests[idx], metadata)
    /\ idx' = idx + 1
    /\ pc' = "send"
    /\ UNCHANGED <<disk, fsChanges, round, self_metadata, pki, metadata, requests,
                   emitted_error, result, prev, committed, args, ret, halted, lookups>>

\* Variant: no rollback at all.
RollbackKeepsNew(current, new, path) == new

\* Variant: a rejected path without a retained entry keeps its new entry.
RollbackInsertOnly(current, new, path) ==
    IF path \in DOMAIN current THEN Insert(new, path, current[path])
    ELSE new

\* Variant: a rejected path is always dropped.
RollbackDropsPath(current, new, path) == Remove(new, path)

\* Variant: nothing is restored for a path the scan did not find.
RollbackOnlyIfScanned(current, new, path) ==
    IF path \notin DOMAIN new THEN new
    ELSE IF path \in DOMAIN current THEN Insert(new, path, current[path])
    ELSE Remove(new, path)

\* The rollback of a rejected path in lookup's `metadata`.
Rollback(current, new, path) ==
    IF path \in DOMAIN current THEN Insert(new, path, current[path])
    ELSE Remove(new, path)

\* Variant: a rejection ends the round as a transport error does.
SendFailureAborts ==
    /\ halted = "no"
    /\ pc = "await"
    /\ emitted_error' = [emitted_error EXCEPT ![requests[idx].kind] = @ + 1]
    /\ Return("Send", Settled("rejected"))
    /\ UNCHANGED <<disk, fsChanges, round, self_metadata, emitted, acknowledged,
                   committed, args, ret, halted>>

\* Variant: a rejection is counted as emitted.
SendFailureCountsEmitted ==
    /\ halted = "no"
    /\ pc = "await"
    /\ metadata' = Rollback(self_metadata, metadata, requests[idx].path)
    /\ emitted' = [emitted EXCEPT ![requests[idx].kind] = @ + 1]
    /\ sent' = Settled("rejected")
    /\ idx' = idx + 1
    /\ pc' = "send"
    /\ UNCHANGED <<disk, fsChanges, round, self_metadata, pki, requests,
                   emitted_error, result, prev, acknowledged, committed, args,
                   ret, halted, lookups>>

\* lookup, Err(sozu_client::Error::Failure(..)) arm of the send.
SendFailure ==
    /\ halted = "no"
    /\ pc = "await"
    /\ metadata' = Rollback(self_metadata, metadata, requests[idx].path)
    /\ emitted_error' = [emitted_error EXCEPT ![requests[idx].kind] = @ + 1]
    /\ sent' = Settled("rejected")
    /\ idx' = idx + 1
    /\ pc' = "send"
    /\ UNCHANGED <<disk, fsChanges, round, self_metadata, pki, requests, emitted,
                   result, prev, acknowledged, committed, args, ret, halted, lookups>>

\* Variant: the round's progress is stored before the error is returned.
SendErrorCommits ==
    /\ halted = "no"
    /\ pc = "await"
    /\ self_metadata' = metadata
    /\ Return("Send", Settled("error"))
    /\ UNCHANGED <<disk, fsChanges, round, emitted, emitted_error,
                   acknowledged, committed, args, ret, halted>>

\* lookup, Err(err) arm of the send: return Err(Error::Send(err)).
SendError ==
    /\ halted = "no"
    /\ pc = "await"
    /\ Return("Send", Settled("error"))
    /\ UNCHANGED <<disk, fsChanges, round, self_metadata, emitted, emitted_error,
                   acknowledged, committed, args, ret, halted>>

\* The acknowledgements of a send log, applied in order.
RECURSIVE Acknowledgements(_, _, _)
Acknowledgements(state, log, scanned) ==
    IF log = <<>> THEN state
    ELSE Acknowledgements(
             IF Head(log).outcome = "ok"
             THEN Acknowledge(state, Head(log).request, scanned) ELSE state,
             Tail(log), scanned)

\* Variant: the new mapping is not stored.
LookupUpdateKeepsOld ==
    /\ halted = "no"
    /\ pc = "send"
    /\ idx > Len(requests)
    /\ committed' = Acknowledgements(
                        committed, sent, [p \in DOMAIN pki |-> Metadata(p, pki[p]).value])
    /\ Return("Ok", sent)
    /\ UNCHANGED <<disk, fsChanges, round, self_metadata, emitted, emitted_error,
                   acknowledged, args, ret, halted>>

\* Variant: the new mapping is merged into the retained one.
LookupUpdateMerges ==
    /\ halted = "no"
    /\ pc = "send"
    /\ idx > Len(requests)
    /\ self_metadata' = [p \in DOMAIN self_metadata \cup DOMAIN metadata |->
                             IF p \in DOMAIN metadata THEN metadata[p]
                             ELSE self_metadata[p]]
    /\ committed' = Acknowledgements(
                        committed, sent, [p \in DOMAIN pki |-> Metadata(p, pki[p]).value])
    /\ Return("Ok", sent)
    /\ UNCHANGED <<disk, fsChanges, round, emitted, emitted_error, acknowledged,
                   args, ret, halted>>

\* lookup, after the send loop: self.metadata = metadata; Ok(()).
LookupUpdate ==
    /\ halted = "no"
    /\ pc = "send"
    /\ idx > Len(requests)
    /\ self_metadata' = metadata
    /\ committed' = Acknowledgements(
                        committed, sent, [p \in DOMAIN pki |-> Metadata(p, pki[p]).value])
    /\ Return("Ok", sent)
    /\ UNCHANGED <<disk, fsChanges, round, emitted, emitted_error, acknowledged,
                   args, ret, halted>>

\* Variant: the ticker starts a round whether or not the previous one has
\* returned.
TickWithoutWaiting ==
    /\ halted = "no"
    /\ round < MaxRounds
    /\ round' = round + 1
    /\ pc' = "lookup"
    /\ lookups' = lookups + 1
    /\ UNCHANGED <<disk, fsChanges, self_metadata, pki, metadata, requests, idx,
                   emitted, emitted_error, result, sent, prev, acknowledged,
                   committed, args, ret, halted>>

\* Variant: the loop goes on after a round that returned Ok only.
TickStopsAfterError ==
    /\ halted = "no"
    /\ pc = "tick"
    /\ result = "Ok"
    /\ round < MaxRounds
    /\ round' = round + 1
    /\ pc' = "lookup"
    /\ lookups' = lookups + 1
    /\ UNCHANGED <<disk, fsChanges, self_metadata, pki, metadata, requests, idx,
                   emitted, emitted_error, result, sent, prev, acknowledged,
                   committed, args, ret, halted>>

\* lookup_every: ticker.tick() returns and the loop calls lookup again.
Tick ==
    /\ halted = "no"
    /\ pc = "tick"
    /\ round < MaxRounds
    /\ round' = round + 1
    /\ pc' = "lookup"
    /\ lookups' = lookups + 1
    /\ UNCHANGED <<disk, fsChanges, self_metadata, pki, metadata, requests, idx,
                   emitted, emitted_error, result, sent, prev, acknowledged,
                   committed, args, ret, halted>>

\* main.rs

\* select!: the termination signal arrives; the other branches are dropped
\* where they stand.
CtrlC ==
    /\ halted = "no"
    /\ halted' = "ctrl_c"
    /\ UNCHANGED <<disk, fsChanges, round, pc, self_metadata, pki, metadata,
                   requests, idx, emitted, emitted_error, result, sent, prev,
                   acknowledged, committed, args, ret, lookups>>

\* select!: the http server returns; the other branches are dropped where
\* they stand.
HttpServe ==
    /\ halted = "no"
    /\ halted' = "serve"
    /\ UNCHANGED <<disk, fsChanges, round, pc, self_metadata, pki, metadata,
                   requests, idx, emitted, emitted_error, result, sent, prev,
                   acknowledged, committed, args, ret, lookups>>

Next ==
    \/ FsChange
    \/ LookupFindError
    \/ LookupFind
    \/ LookupMetadataError
    \/ LookupMetadata
    \/ LookupCreate
    \/ LookupSend
    \/ SendOk
    \/ SendFailure
    \/ SendError
    \/ LookupUpdate
    \/ Tick
    \/ CtrlC
    \/ HttpServe

Spec == Init /\ [][Next]_vars

\* The ticker of lookup_every fires again and again: once lookup has returned
\* and the interval has elapsed, the loop goes on.  Nothing is assumed of the
\* proxy or of the filesystem, nor of the signal and the http server.
SpecTicker == Spec /\ WF_vars(Tick)

\* The rounds lookup_every runs after the point from which nothing goes
\* wrong any more.
StableRounds == 2

\* The first of these rounds.
StableFrom == MaxRounds

\* lookup_every: the loop goes on through the stable rounds.
TickStable ==
    /\ halted = "no"
    /\ pc = "tick"
    /\ round >= MaxRounds
    /\ round < MaxRounds + StableRounds - 1
    /\ round' = round + 1
    /\ pc' = "lookup"
    /\ lookups' = lookups + 1
    /\ UNCHANGED <<disk, fsChanges, self_metadata, pki, metadata, requests, idx,
                   emitted, emitted_error, result, sent, prev, acknowledged,
                   committed, args, ret, halted>>

\* Before round StableFrom anything happens; from it on the root does not
\* change, find succeeds and the proxy acknowledges what it is sent.  The
\* loop is not cancelled.
NextStable ==
    \/ round < StableFrom /\ FsChange
    \/ round < StableFrom /\ LookupFindError
    \/ round < StableFrom /\ SendFailure
    \/ round < StableFrom /\ SendError
    \/ LookupFind
    \/ LookupMetadataError
    \/ LookupMetadata
    \/ LookupCreate
    \/ LookupSend
    \/ SendOk
    \/ LookupUpdate
    \/ Tick
    \/ TickStable

\* The loop keeps running: a filesystem call, a send or a tick that is
\* awaited completes.
SpecStable == Init /\ [][NextStable]_vars /\ WF_vars(NextStable)

\* ------------------------------------------------------------------------
\* diff::create and message::create called directly, on arbitrary arguments

\* Metadata values of a path: two leaves, and one leaf with a chain.
ArgMetadata(path) ==
    {Metadata(path, Read(e).value).value :
        e \in {Dir(Crt(<<GoodCert(1)>>), "key1", NoOptions),
               Dir(Crt(<<GoodCert(1), ChainCert>>), "key1", NoOptions)}}

ArgMetadataMaps ==
    UNION {{m \in [S -> UNION {ArgMetadata(p) : p \in S}] :
               \A p \in S : m[p] \in ArgMetadata(p)} : S \in SUBSET ArgPaths}

ArgPkiMaps ==
    {[p \in S |-> Read(Dir(Crt(<<GoodCert(1)>>), "key1", NoOptions)).value] :
        S \in SUBSET ArgPaths}

InitCreate ==
    /\ disk = [p \in Paths |-> NoEntry]
    /\ fsChanges = 0
    /\ round = 1
    /\ pc = "lookup"
    /\ self_metadata = EmptyMap
    /\ pki = EmptyMap
    /\ metadata = EmptyMap
    /\ requests = <<>>
    /\ idx = 1
    /\ emitted = [k \in Kinds |-> 0]
    /\ emitted_error = [k \in Kinds |-> 0]
    /\ result = "none"
    /\ sent = <<>>
    /\ prev = NoRound
    /\ acknowledged = EmptyMap
    /\ committed = EmptyMap
    /\ args \in [current : ArgMetadataMaps, new : ArgMetadataMaps, pki : ArgPkiMaps]
    /\ ret = NoCall
    /\ halted = "no"
    /\ lookups = 0

CallDiffCreate ==
    /\ ret = NoCall
    /\ ret' = [call |-> "diff", value |-> DiffCreate(args.current, args.new)]
    /\ UNCHANGED <<disk, fsChanges, round, pc, self_metadata, pki, metadata,
                   requests, idx, emitted, emitted_error, result, sent, prev,
                   acknowledged, committed, args, halted, lookups>>

CallMessageCreate ==
    /\ ret = NoCall
    /\ \E order \in Orders(DOMAIN args.current \cup DOMAIN args.new) :
         ret' = [call |-> "message",
                 value |-> MessageCreate(args.current, args.new, args.pki, order)]
    /\ UNCHANGED <<disk, fsChanges, round, pc, self_metadata, pki, metadata,
                   requests, idx, emitted, emitted_error, result, sent, prev,
                   acknowledged, committed, args, halted, lookups>>

NextCreate ==
    \/ CallDiffCreate
    \/ CallMessageCreate

SpecCreate == InitCreate /\ [][NextCreate]_vars

\* ------------------------------------------------------------------------
\* Properties

\* lookup has built its request list and has sent nothing yet.
Built == pc = "send" /\ idx = 1

\* The metadata lookup extracts from the bundles found in a root.
Scanned(root) == [p \in DOMAIN Find(root) |-> Metadata(p, Find(root)[p]).value]

\* The paths whose request of a kind had an outcome in a round.
PathsWith(r, kind, outcome) ==
    {r.sent[i].request.path :
        i \in {j \in DOMAIN r.sent :
                  r.sent[j].request.kind = kind /\ r.sent[j].outcome = outcome}}

\* The request list holds a request of a kind for a path.
Requested(kind, path) ==
    \E i \in DOMAIN requests : requests[i].kind = kind /\ requests[i].path = path

\* C1: when the Replace for a path is rejected and the round completes, the
\* retained metadata of the path is what it was before the round, not the
\* scanned value; with the root unchanged, the next round that reaches the
\* diff classifies the path as modified and builds a Replace for it.
ReplaceRejectionRollsBack ==
    \A p \in Paths :
        (prev.outcome = "Ok" /\ p \in PathsWith(prev, "ReplaceCertificate", "rejected")) =>
            /\ p \in DOMAIN self_metadata
            /\ p \in DOMAIN prev.before
            /\ self_metadata[p] = prev.before[p]
            /\ self_metadata[p] # prev.scanned[p]
            /\ (Built /\ disk = prev.disk) =>
                   /\ p \in DiffCreate(self_metadata, metadata).modified
                   /\ Requested("ReplaceCertificate", p)

ReplaceRejectionRollsBackWitness ==
    \E p \in Paths :
        /\ prev.outcome = "Ok"
        /\ p \in PathsWith(prev, "ReplaceCertificate", "rejected")
        /\ Built
        /\ disk = prev.disk
        /\ Requested("ReplaceCertificate", p)

\* C2: when the Add for a path without a retained entry is rejected and the
\* round completes, the path is absent from the retained state; with the
\* root unchanged, the next round that reaches the diff classifies the path
\* as added and builds an Add for it.
AddRejectionRollsBack ==
    \A p \in Paths :
        (prev.outcome = "Ok" /\ p \in PathsWith(prev, "AddCertificate", "rejected")) =>
            /\ p \notin DOMAIN prev.before
            /\ p \notin DOMAIN self_metadata
            /\ (Built /\ disk = prev.disk) =>
                   /\ p \in DiffCreate(self_metadata, metadata).added
                   /\ Requested("AddCertificate", p)

AddRejectionRollsBackWitness ==
    \E p \in Paths :
        /\ prev.outcome = "Ok"
        /\ p \in PathsWith(prev, "AddCertificate", "rejected")
        /\ Built
        /\ disk = prev.disk
        /\ Requested("AddCertificate", p)

\* C3: when the send of request k fails with an error other than a
\* rejection, lookup returns an error, requests k+1..n are not sent, and the
\* retained state is what it was before the round: neither the changes
\* acknowledged for requests 1..k-1 nor the rollbacks are stored.
TransportErrorLeavesStateUntouched ==
    prev.outcome = "Send" =>
        LET k == Len(prev.sent)
        IN  /\ result = "Send"
            /\ k >= 1
            /\ k <= Len(prev.requests)
            /\ prev.sent[k].outcome = "error"
            /\ \A i \in 1..k : prev.sent[i].request = prev.requests[i]
            /\ \A i \in 1..(k - 1) : prev.sent[i].outcome \in {"ok", "rejected"}
            /\ self_metadata = prev.before

TransportErrorLeavesStateUntouchedWitness ==
    /\ prev.outcome = "Send"
    /\ Len(prev.sent) = 2
    /\ prev.sent[1].outcome = "ok"
    /\ prev.before # prev.scanned
    /\ pc = "tick"

\* C4: after a round in which every send is acknowledged, a following round
\* run with the root unchanged computes an empty diff and sends nothing.
CleanRoundIsIdempotent ==
    (/\ prev.outcome = "Ok"
     /\ \A i \in DOMAIN prev.sent : prev.sent[i].outcome = "ok"
     /\ disk = prev.disk
     /\ pc \in {"send", "await"}) =>
        /\ DiffCreate(self_metadata, metadata)
               = [added |-> {}, modified |-> {}, deleted |-> {}]
        /\ requests = <<>>
        /\ sent = <<>>
        /\ pc = "send"

CleanRoundIsIdempotentWitness ==
    /\ prev.outcome = "Ok"
    /\ prev.sent # <<>>
    /\ \A i \in DOMAIN prev.sent : prev.sent[i].outcome = "ok"
    /\ disk = prev.disk
    /\ Built
    /\ self_metadata # EmptyMap

\* C5: diff::create returns added = keys(new) \ keys(current), deleted =
\* keys(current) \ keys(new) and modified = the common keys whose Metadata
\* differ; the three sets are pairwise disjoint, together with the unchanged
\* common keys they partition keys(current) \cup keys(new), and the diff of
\* a mapping with itself has all three sets empty.
DiffIsSetAlgebra ==
    ret.call = "diff" =>
        LET d == ret.value
            current == args.current
            new == args.new
            unchanged == {k \in DOMAIN current \cap DOMAIN new : current[k] = new[k]}
        IN  /\ \A k \in ArgPaths :
                /\ k \in d.added <=> (k \in DOMAIN new /\ k \notin DOMAIN current)
                /\ k \in d.deleted <=> (k \in DOMAIN current /\ k \notin DOMAIN new)
                /\ k \in d.modified <=>
                       (k \in DOMAIN current /\ k \in DOMAIN new /\ current[k] # new[k])
            /\ d.added \cap d.deleted = {}
            /\ d.added \cap d.modified = {}
            /\ d.deleted \cap d.modified = {}
            /\ unchanged \cap (d.added \cup d.deleted \cup d.modified) = {}
            /\ d.added \cup d.deleted \cup d.modified \cup unchanged
                   = DOMAIN current \cup DOMAIN new
            /\ (current = new => d.added = {} /\ d.deleted = {} /\ d.modified = {})

DiffIsSetAlgebraWitness ==
    /\ ret.call = "diff"
    /\ ret.value.added # {}
    /\ ret.value.deleted # {}
    /\ ret.value.modified # {}

\* The root holds one valid bundle, at path p, and nothing else.
OneBundle(root, p) ==
    /\ root[p] \in ValidEntries
    /\ \A q \in Paths \ {p} : root[q] = NoEntry

Leaf(entry) == entry.crt.certs[1]

AllAcknowledged(r) ==
    /\ r.outcome = "Ok"
    /\ \A i \in DOMAIN r.sent : r.sent[i].outcome = "ok"

\* C6: from a fresh Watcher and a root holding one valid bundle, round 1
\* builds exactly one Add and, once acknowledged, the retained state has
\* exactly one entry, keyed by the bundle path; after the leaf certificate
\* is changed, round 2 builds exactly one Replace carrying the round-1
\* fingerprint as old fingerprint and the newly loaded bundle, and once
\* acknowledged the retained entry's fingerprint is the new certificate's.
AddThenReplaceScenario ==
    \A p \in Paths :
        /\ (round = 1 /\ Built /\ OneBundle(disk, p)) =>
               requests = <<[path |-> p, kind |-> "AddCertificate",
                             address |-> Listener,
                             certificate |-> Read(disk[p]).value]>>
        /\ (round = 1 /\ pc = "tick" /\ AllAcknowledged(prev) /\ OneBundle(prev.disk, p)) =>
               /\ DOMAIN self_metadata = {p}
               /\ self_metadata[p].fingerprint
                      = CalculateFingerprint(Leaf(prev.disk[p])).fingerprint
        /\ (/\ round = 2
            /\ AllAcknowledged(prev)
            /\ OneBundle(prev.disk, p)
            /\ OneBundle(disk, p)
            /\ Leaf(disk[p]) # Leaf(prev.disk[p])) =>
               /\ Built =>
                      requests = <<[path |-> p, kind |-> "ReplaceCertificate",
                                    address |-> Listener,
                                    new_certificate |-> Read(disk[p]).value,
                                    old_fingerprint |-> FingerprintToString(
                                        CalculateFingerprint(Leaf(prev.disk[p])).fingerprint)]>>
        /\ (/\ round = 2
            /\ pc = "tick"
            /\ AllAcknowledged(prev)
            /\ OneBundle(prev.disk, p)
            /\ Len(prev.requests) = 1
            /\ prev.requests[1].kind = "ReplaceCertificate") =>
               /\ DOMAIN self_metadata = {p}
               /\ self_metadata[p].fingerprint
                      = CalculateFingerprint(Leaf(prev.disk[p])).fingerprint

AddThenReplaceScenarioWitness ==
    \E p \in Paths :
        /\ round = 2
        /\ pc = "tick"
        /\ AllAcknowledged(prev)
        /\ OneBundle(prev.disk, p)
        /\ Len(prev.requests) = 1
        /\ prev.requests[1].kind = "ReplaceCertificate"
        /\ prev.requests[1].old_fingerprint
               # FingerprintToString(self_metadata[p].fingerprint)
        /\ emitted["AddCertificate"] = 1
        /\ emitted["ReplaceCertificate"] = 1

\* lookup is not running.
BetweenRounds == pc \in {"lookup", "tick"}

\* C7 as stated: between rounds, the retained state maps a path to the
\* metadata of the last Add or Replace the proxy acknowledged for it, and
\* holds no path whose last acknowledged request was a Remove or that never
\* had an acknowledged request.
RetainedIsLastAcknowledged ==
    BetweenRounds => self_metadata = acknowledged

\* C7, amended: the same, counting only the acknowledgements received in
\* rounds that ran to completion; the acknowledgements of a round that a
\* transport error aborts leave the retained state as it was.
RetainedIsLastAcknowledgedInCompletedRound ==
    BetweenRounds => self_metadata = committed

RetainedIsLastAcknowledgedInCompletedRoundWitness ==
    /\ pc = "tick"
    /\ self_metadata # EmptyMap
    /\ acknowledged # committed
    /\ prev.outcome = "Ok"
    /\ \E i \in DOMAIN prev.sent : prev.sent[i].outcome = "rejected"
    /\ \E i \in DOMAIN prev.sent : prev.sent[i].outcome = "ok"

\* C8: a round that fails in the scan, the metadata extraction or the
\* request building sends nothing and leaves the retained state unchanged,
\* so the next round over the same root computes the diff the failed round
\* would have computed.
EarlyFailureLeavesStateUntouched ==
    prev.outcome \in {"FindCertificates", "ComputeMetadata", "ComputeMessage"} =>
        /\ result = prev.outcome
        /\ prev.sent = <<>>
        /\ self_metadata = prev.before
        /\ (Built /\ disk = prev.disk) =>
               DiffCreate(self_metadata, metadata)
                   = DiffCreate(prev.before, Scanned(prev.disk))

EarlyFailureLeavesStateUntouchedWitness ==
    /\ prev.outcome = "FindCertificates"
    /\ prev.before # EmptyMap
    /\ Built
    /\ disk = prev.disk
    /\ requests # <<>>

\* C9: in the list returned by message::create every Add precedes every
\* Remove and every Remove precedes every Replace.
KindRank(kind) ==
    CASE kind = "AddCertificate" -> 1
      [] kind = "RemoveCertificate" -> 2
      [] kind = "ReplaceCertificate" -> 3

AddThenRemoveThenReplace ==
    (ret.call = "message" /\ ret.value.ok) =>
        \A i, j \in DOMAIN ret.value.acc :
            i < j => KindRank(ret.value.acc[i].kind) <= KindRank(ret.value.acc[j].kind)

AddThenRemoveThenReplaceWitness ==
    /\ ret.call = "message"
    /\ ret.value.ok
    /\ {ret.value.acc[i].kind : i \in DOMAIN ret.value.acc} = Kinds


\* C10: within a round the requests are handed to the client one at a time
\* in the order of the built list: a send starts only after the previous
\* one has returned, and no request is sent twice or skipped unless the
\* round aborts.
SendsAreSequentialAndOrdered ==
    /\ Len(sent) <= Len(requests)
    /\ \A i \in DOMAIN sent :
        /\ sent[i].request = requests[i]
        /\ sent[i].outcome = "pending" => (i = Len(sent) /\ pc = "await")
    /\ pc = "send" => Len(sent) = idx - 1
    /\ pc = "await" => Len(sent) = idx
    /\ prev.outcome = "Ok" =>
        /\ Len(prev.sent) = Len(prev.requests)
        /\ \A i \in DOMAIN prev.sent :
            /\ prev.sent[i].request = prev.requests[i]
            /\ prev.sent[i].outcome \in {"ok", "rejected"}
    /\ prev.outcome = "Send" =>
        /\ Len(prev.sent) <= Len(prev.requests)
        /\ \A i \in DOMAIN prev.sent : prev.sent[i].request = prev.requests[i]

SendsAreSequentialAndOrderedWitness ==
    /\ pc = "await"
    /\ Len(sent) = 2
    /\ sent[1].outcome = "rejected"
    /\ sent[2].outcome = "pending"

InLookup == pc \in {"lookup", "metadata", "create", "send", "await"}

\* C11: the rounds of one Watcher never overlap: at most one call of lookup
\* is in progress at any time, lookup_every calls lookup again only once the
\* previous call has returned and left its result, and this holds while the
\* signal listener and the http server run in the same select!.
RoundsNeverOverlap ==
    /\ lookups \in {0, 1}
    /\ lookups = 1 <=> InLookup
    /\ lookups = 0 <=> pc = "tick"
    /\ pc = "lookup" =>
        /\ pki = EmptyMap /\ metadata = EmptyMap
        /\ requests = <<>> /\ sent = <<>>
        /\ round > 1 => result # "none" /\ prev.outcome = result

RoundsNeverOverlapWitness ==
    /\ round = MaxRounds
    /\ pc = "await"
    /\ lookups = 1
    /\ prev.outcome = "Ok"
    /\ prev.sent # <<>>
    /\ halted = "serve"

Failures == {"FindCertificates", "ComputeMetadata", "ComputeMessage", "Send"}

\* C12: once the Watcher is built lookup_every does not return by itself:
\* whatever a round returned, when the ticker fires the loop runs the next
\* round, unless the select! of main has dropped the loop.
LoopNeverStops ==
    \A r \in 1..(MaxRounds - 1) :
        (pc = "tick" /\ round = r) ~> (round = r + 1 \/ halted # "no")

LoopNeverStopsWitness ==
    /\ round = MaxRounds
    /\ InLookup
    /\ result = "Send"
    /\ halted = "no"

\* read fails for a directory at parse_x509: the leaf is valid PEM that is
\* not an X.509 certificate, everything read before it is in order.
UnparsableLeaf(entry) ==
    /\ entry.kind = "dir"
    /\ Read(entry).tag = "err"
    /\ Read(entry).error = "ParseX509"

\* C13: when a round has scanned a root holding a bundle whose leaf is not
\* parsable as X.509, the round has failed, has sent no request and has left
\* the retained state untouched; the bundle is not skipped while the round
\* goes on for the other bundles.
UnparsableLeafAbortsRound ==
    \A p \in Paths :
        (prev.outcome # "none" /\ UnparsableLeaf(prev.disk[p])) =>
            /\ prev.outcome \in Failures
            /\ prev.sent = <<>>
            /\ self_metadata = prev.before

\* A directory with a missing .crt or .key, an empty .crt, or a leaf that
\* is not valid PEM or not a parsable X.509 certificate.
LoadError(entry) ==
    /\ entry.kind = "dir"
    /\ \/ ~entry.crt.exists
       \/ entry.crt.certs = <<>>
       \/ entry.key = "missing"
       \/ ~entry.crt.certs[1].pem
       \/ ~entry.crt.certs[1].x509

\* The request list holds a request for a path.
RequestFor(path) == \E i \in DOMAIN requests : requests[i].path = path

\* C14 as stated: a bundle that fails to load is absent from the scan, and
\* no request is built for its path, retained or not; a retained entry of
\* the path outlives the round.
LoadErrorIsIgnored ==
    \A p \in Paths :
        /\ (Built /\ LoadError(disk[p])) =>
               /\ p \notin DOMAIN pki
               /\ ~RequestFor(p)
        /\ (prev.outcome = "Ok" /\ LoadError(prev.disk[p])
                /\ p \in DOMAIN prev.before) =>
               /\ p \in DOMAIN self_metadata
               /\ self_metadata[p] = prev.before[p]

\* C14, amended: a bundle that fails to load never fails the round and is
\* absent from the scan; no Add or Replace is built for its path; when the
\* path is in the retained state it is classified as deleted and a Remove is
\* built for it, and the retained entry outlives a completed round only if
\* that Remove was rejected.
LoadErrorIsItemSkipped ==
    /\ prev.outcome = "ComputeMetadata" =>
           \E q \in DOMAIN Find(prev.disk) : ~Metadata(q, Find(prev.disk)[q]).ok
    /\ prev.outcome # "ComputeMessage"
    /\ \A p \in Paths :
        /\ (pc \in {"metadata", "create", "send", "await"} /\ LoadError(disk[p])) =>
               p \notin DOMAIN pki
        /\ (Built /\ LoadError(disk[p])) =>
               /\ ~Requested("AddCertificate", p)
               /\ ~Requested("ReplaceCertificate", p)
               /\ Requested("RemoveCertificate", p) <=> p \in DOMAIN self_metadata
        /\ (prev.outcome = "Ok" /\ LoadError(prev.disk[p])) =>
               /\ p \notin DOMAIN prev.scanned
               /\ p \in DOMAIN self_metadata <=>
                      p \in PathsWith(prev, "RemoveCertificate", "rejected")

LoadErrorIsItemSkippedWitness ==
    \E p \in Paths :
        /\ prev.outcome = "Ok"
        /\ LoadError(prev.disk[p])
        /\ p \in DOMAIN prev.before
        /\ p \in PathsWith(prev, "RemoveCertificate", "ok")
        /\ p \notin DOMAIN self_metadata

\* Two mappings agree on a path: both lack it or both hold the same value.
Same(f, g, path) ==
    /\ path \in DOMAIN f <=> path \in DOMAIN g
    /\ path \in DOMAIN f => f[path] = g[path]

\* The paths whose request was rejected in a send log.
Rejected(log) ==
    {log[i].request.path : i \in {j \in DOMAIN log : log[j].outcome = "rejected"}}

\* C15: after a round that reached the final assignment, the retained entry
\* of every path is its pre-round entry when the path's request was
\* rejected, and else the metadata extracted from this round's scan, absent
\* where that one is absent; a round that did not get there contributes
\* nothing.
RetainedIsScanOrRollback ==
    /\ DOMAIN self_metadata \subseteq Paths
    /\ prev.outcome \in Failures => self_metadata = prev.before
    /\ prev.outcome = "Ok" =>
        \A p \in Paths :
            IF p \in Rejected(prev.sent)
            THEN Same(self_metadata, prev.before, p)
            ELSE Same(self_metadata, prev.scanned, p)

RetainedIsScanOrRollbackWitness ==
    /\ prev.outcome = "Ok"
    /\ \E p \in Rejected(prev.sent) :
        /\ p \in DOMAIN prev.scanned
        /\ p \notin DOMAIN prev.before
        /\ p \notin DOMAIN self_metadata
    /\ \E p \in Paths \ Rejected(prev.sent) :
        /\ p \in DOMAIN prev.scanned
        /\ p \notin DOMAIN prev.before
        /\ self_metadata[p] = prev.scanned[p]

\* C16: when the Remove for a path is rejected and the round completes, the
\* path keeps its pre-round metadata; with the root unchanged, the next
\* round that reaches the diff classifies the path as deleted and builds the
\* same Remove, carrying the same fingerprint.
RemoveRejectionRollsBack ==
    \A p \in Paths :
        (prev.outcome = "Ok" /\ p \in PathsWith(prev, "RemoveCertificate", "rejected")) =>
            /\ p \in DOMAIN prev.before
            /\ p \notin DOMAIN prev.scanned
            /\ p \in DOMAIN self_metadata
            /\ self_metadata[p] = prev.before[p]
            /\ (Built /\ disk = prev.disk) =>
                   /\ p \in DiffCreate(self_metadata, metadata).deleted
                   /\ \E i \in DOMAIN requests, j \in DOMAIN prev.sent :
                       /\ requests[i] = prev.sent[j].request
                       /\ requests[i] =
                              [path |-> p, kind |-> "RemoveCertificate",
                               address |-> Listener,
                               fingerprint |->
                                   FingerprintToString(prev.before[p].fingerprint)]

RemoveRejectionRollsBackWitness ==
    \E p \in Paths :
        /\ prev.outcome = "Ok"
        /\ p \in PathsWith(prev, "RemoveCertificate", "rejected")
        /\ Built
        /\ disk = prev.disk
        /\ Requested("RemoveCertificate", p)

\* The send log of a round that ended holds a rejection.
HadRejection == prev.outcome # "none" /\ Rejected(prev.sent) # {}

\* C17 as stated: a round in which a request was rejected sends every
\* request of its list and returns Ok.
RejectionThenOk ==
    HadRejection =>
        /\ prev.outcome = "Ok"
        /\ Len(prev.sent) = Len(prev.requests)

\* The metadata lookup extracted from the bundles it holds.
Extracted == [p \in DOMAIN pki |-> Metadata(p, pki[p]).value]

\* C17, amended: a rejection does not end the round; a round that got to
\* the send loop ends early only on a transport error, which comes last in
\* its log, and otherwise sends every request in order and returns Ok.  In
\* the working mapping and in the stored one, the entries of the paths whose
\* request was not rejected are the scanned ones.
RejectionDoesNotStopRound ==
    /\ prev.outcome = "Ok" =>
        /\ Len(prev.sent) = Len(prev.requests)
        /\ \A i \in DOMAIN prev.sent :
            /\ prev.sent[i].request = prev.requests[i]
            /\ prev.sent[i].outcome \in {"ok", "rejected"}
        /\ \A q \in Paths \ Rejected(prev.sent) : Same(self_metadata, prev.scanned, q)
    /\ prev.outcome = "Send" =>
        /\ prev.sent # <<>>
        /\ Len(prev.sent) <= Len(prev.requests)
        /\ \A i \in DOMAIN prev.sent :
            /\ prev.sent[i].request = prev.requests[i]
            /\ prev.sent[i].outcome = "error" <=> i = Len(prev.sent)
    /\ pc \in {"send", "await"} =>
        \A q \in Paths :
            IF q \in Rejected(sent)
            THEN Same(metadata, self_metadata, q)
            ELSE Same(metadata, Extracted, q)

RejectionDoesNotStopRoundWitness ==
    /\ prev.outcome = "Ok"
    /\ Len(prev.sent) = 2
    /\ prev.sent[1].outcome = "rejected"
    /\ prev.sent[2].outcome = "ok"
    /\ prev.sent[2].request.kind = "AddCertificate"
    /\ prev.sent[2].request.path \in DOMAIN self_metadata

\* One more of a kind in a counter.
Incremented(counter, kind) == [counter EXCEPT ![kind] = @ + 1]

\* C18: a step in which a send returns changes the counters by the outcome:
\* acknowledged, the emitted counter of the request's kind grows by one;
\* rejected, the emitted-error counter of the kind grows by one; failed
\* otherwise, neither changes.  No other step changes a counter, so no
\* counter decreases and a round that aborts keeps what it counted.
CountersFollowSends ==
    [][LET returns == pc = "await" /\ pc' # "await"
           log == IF pc' = "send" THEN sent' ELSE prev'.sent
           outcome == log[Len(sent)].outcome
           kind == requests[idx].kind
       IN  IF returns
           THEN /\ log[Len(sent)].request = requests[idx]
                /\ outcome \in {"ok", "rejected", "error"}
                /\ outcome = "ok" =>
                       /\ emitted' = Incremented(emitted, kind)
                       /\ emitted_error' = emitted_error
                /\ outcome = "rejected" =>
                       /\ emitted' = emitted
                       /\ emitted_error' = Incremented(emitted_error, kind)
                /\ outcome = "error" =>
                       /\ emitted' = emitted
                       /\ emitted_error' = emitted_error
           ELSE /\ emitted' = emitted
                /\ emitted_error' = emitted_error]_vars

CountersFollowSendsWitness ==
    /\ round = 1
    /\ prev.outcome = "Send"
    /\ Len(prev.sent) = 2
    /\ prev.sent[1].outcome = "rejected"
    /\ emitted_error = Incremented([k \in Kinds |-> 0], prev.sent[1].request.kind)
    /\ emitted = [k \in Kinds |-> 0]

\* C19: every request built names the configured listener; an Add is for an
\* added path and carries the bundle loaded in this round; a Remove is for a
\* deleted path and carries the fingerprint retained for it; a Replace is
\* for a modified path and carries the retained fingerprint as old
\* fingerprint and the bundle loaded in this round.
RequestsCarrySnapshots ==
    Built =>
        \A i \in DOMAIN requests :
            LET request == requests[i]
                p == request.path
                diff == DiffCreate(self_metadata, Scanned(disk))
            IN  /\ request.address = Listener
                /\ request.kind \in Kinds
                /\ request.kind = "AddCertificate" =>
                       /\ p \in diff.added
                       /\ request.certificate = Find(disk)[p]
                /\ request.kind = "RemoveCertificate" =>
                       /\ p \in diff.deleted
                       /\ request.fingerprint =
                              FingerprintToString(self_metadata[p].fingerprint)
                /\ request.kind = "ReplaceCertificate" =>
                       /\ p \in diff.modified
                       /\ request.new_certificate = Find(disk)[p]
                       /\ request.old_fingerprint =
                              FingerprintToString(self_metadata[p].fingerprint)

RequestsCarrySnapshotsWitness ==
    /\ Built
    /\ Len(requests) = 2
    /\ requests[1].kind = "AddCertificate"
    /\ requests[2].kind = "AddCertificate"
    /\ requests[1].certificate # requests[2].certificate

\* Two metadata differ in the chain only.
ChainOnlyChange(old, new) ==
    /\ old.fingerprint = new.fingerprint
    /\ old.names = new.names
    /\ old.chain_fingerprints # new.chain_fingerprints

\* C20: a path in both snapshots is modified exactly when its Metadata
\* differ as whole values; so a path whose chain fingerprints differ while
\* leaf fingerprint and names are equal is modified, and a Replace carrying
\* the newly loaded bundle is built for it.
ChainChangeIsModification ==
    Built =>
        \A p \in DOMAIN self_metadata \cap DOMAIN metadata :
            /\ p \in DiffCreate(self_metadata, metadata).modified
                   <=> self_metadata[p] # metadata[p]
            /\ ChainOnlyChange(self_metadata[p], metadata[p]) =>
                   /\ p \in DiffCreate(self_metadata, metadata).modified
                   /\ Requested("ReplaceCertificate", p)
                   /\ \A i \in DOMAIN requests :
                          requests[i].path = p =>
                              requests[i].new_certificate = Find(disk)[p]

ChainChangeIsModificationWitness ==
    \E p \in Paths :
        /\ Built
        /\ p \in DOMAIN self_metadata \cap DOMAIN metadata
        /\ ChainOnlyChange(self_metadata[p], metadata[p])
        /\ metadata[p].chain_fingerprints # {}
        /\ Requested("ReplaceCertificate", p)

\* A directory whose .crt and .key are in order: both readable, a leaf that
\* is valid PEM and a parsable X.509 certificate.
ValidCrtAndKey(entry) ==
    /\ entry.kind = "dir"
    /\ entry.crt.exists
    /\ entry.crt.certs # <<>>
    /\ entry.key # "missing"
    /\ entry.crt.certs[1].pem
    /\ entry.crt.certs[1].x509

Loaded == pc \in {"metadata", "create", "send", "await"}

\* C21: a directory with a valid certificate file and key file is loaded
\* whatever the state of options.json; when options.json is there but does
\* not give a version list, the bundle is loaded with an empty list.
OptionsNeverBlockLoading ==
    Loaded =>
        \A p \in Paths :
            ValidCrtAndKey(disk[p]) =>
                /\ p \in DOMAIN pki
                /\ disk[p].opts.state # "json" => pki[p].versions = <<>>

\* C22: when lookup gets to message::create, the new metadata and the loaded
\* bundles have the same keys and every path of a diff set has the entries
\* the builder reads, so create succeeds for every iteration order; no round
\* returns ComputeMessage.
BuilderNeverFails ==
    /\ result # "ComputeMessage"
    /\ prev.outcome # "ComputeMessage"
    /\ pc = "create" =>
        LET diff == DiffCreate(self_metadata, metadata)
        IN  /\ DOMAIN metadata = DOMAIN pki
            /\ diff.added \subseteq DOMAIN metadata \cap DOMAIN pki
            /\ diff.deleted \subseteq DOMAIN self_metadata
            /\ diff.modified \subseteq DOMAIN self_metadata \cap DOMAIN pki
            /\ \A order \in Orders(DOMAIN self_metadata \cup DOMAIN metadata) :
                   MessageCreate(self_metadata, metadata, pki, order).ok

BuilderNeverFailsWitness ==
    LET diff == DiffCreate(self_metadata, metadata)
    IN  /\ pc = "create"
        /\ diff.modified # {}
        /\ self_metadata # metadata

\* Two loadable contents of a directory with the same .crt and another key
\* or other options.
KeyOrOptionsChange(old, new) ==
    /\ ValidCrtAndKey(old) /\ old.opts.state # "unreadable"
    /\ ValidCrtAndKey(new) /\ new.opts.state # "unreadable"
    /\ old.crt = new.crt
    /\ old.key # new.key \/ old.opts # new.opts

\* C23: when the key or the options of a retained bundle change and its
\* .crt does not, the round extracts the retained metadata again and builds
\* no request for the path although the loaded bundle differs; over the
\* same root the next round builds none either.
KeyChangeIsNotSent ==
    \A p \in Paths :
        /\ (Built /\ prev.outcome = "Ok" /\ p \in DOMAIN prev.scanned
                /\ p \notin Rejected(prev.sent)
                /\ KeyOrOptionsChange(prev.disk[p], disk[p])) =>
               /\ p \in DOMAIN self_metadata
               /\ metadata[p] = self_metadata[p]
               /\ ~RequestFor(p)
        /\ (Built /\ prev.outcome = "Ok" /\ disk = prev.disk
                /\ p \in DOMAIN prev.scanned
                /\ \A i \in DOMAIN prev.requests : prev.requests[i].path # p) =>
               ~RequestFor(p)

KeyChangeIsNotSentWitness ==
    \E p \in Paths :
        /\ Built
        /\ prev.outcome = "Ok"
        /\ p \in PathsWith(prev, "AddCertificate", "ok")
        /\ KeyOrOptionsChange(prev.disk[p], disk[p])
        /\ prev.disk[p].key # disk[p].key
        /\ Find(disk)[p] # Find(prev.disk)[p]
        /\ requests = <<>>

\* Every bundle find loads from a root has its fingerprints computed.
ExtractionSucceeds(root) ==
    \A p \in DOMAIN Find(root) : Metadata(p, Find(root)[p]).ok

\* The retained state is the metadata of the bundles on disk and no request
\* is built or in flight.
Converged ==
    /\ ExtractionSucceeds(disk)
    /\ self_metadata = Scanned(disk)
    /\ requests = <<>>
    /\ sent = <<>>

\* C24: once the root has stopped changing, scans and extractions succeed
\* and the proxy acknowledges every request, the retained state comes to
\* equal the metadata of the bundles on disk and stays so, and no request
\* is built any more, whatever was rejected or failed before.
Convergence ==
    (round >= StableFrom /\ ExtractionSucceeds(disk)) ~> []Converged

ConvergenceWitness ==
    /\ round = MaxRounds + StableRounds - 1
    /\ Built
    /\ Converged
    /\ self_metadata # EmptyMap
    /\ \E k \in Kinds : emitted_error[k] > 0
    /\ prev.outcome = "Ok"
    /\ prev.sent # <<>>

====
